---- MODULE Spec2Model ----
(***************************************************************************)
(* Model of the visual-abstract generator: the PrioritySliders component   *)
(* (components/PrioritySliders), the App component's file / submit         *)
(* handlers (src/App.tsx) and the research processor                        *)
(* (utils/researchProcessor).                                               *)
(***************************************************************************)
EXTENDS Integers, Sequences, FiniteSets, TLC

VARIABLES
    sliderPriorities,   \* PrioritySliders: useState priorities
    priorities,         \* App: useState priorities (fed by onChange)
    file,               \* App: useState file
    loading,            \* App: useState loading
    error,              \* App: useState error
    summary,            \* App: useState summary
    abstractData,       \* App: useState abstractData
    pc,                 \* handlePDFSubmit: the await it is suspended at
    runStatus,          \* handlePDFSubmit: runStatus.status, "none" before a retrieval
    polls,              \* handlePDFSubmit: iterations of the polling loop so far
    submitted,          \* handlePDFSubmit: the priorities its closure holds
    sent,               \* the priorities put into the completion request
    calls,              \* history: external calls of the current / last submission
    abstractBefore,     \* history: abstractData when the submission started
    lastContent,        \* history: kind of completion content last received
    lastEvent,          \* history: the handler or step that ran last
    text,               \* researchProcessor: the text given to processInitialData
    processed           \* researchProcessor: what processInitialData returned

appVars == <<file, loading, error, summary, abstractData, pc, runStatus, polls,
             submitted, sent, calls, abstractBefore, lastContent>>

vars == <<sliderPriorities, priorities, appVars, lastEvent, text, processed>>

----------------------------------------------------------------------------
(* JavaScript numbers.  The slider arithmetic leaves the integers: 100 / 0  *)
(* is Infinity, 0 * Infinity is NaN, Infinity - Infinity is NaN.  A number  *)
(* is a record: a finite integer, NaN, or an infinity with its sign in n.   *)

Num(i) == [k |-> "fin", n |-> i]

NaN == [k |-> "nan", n |-> 0]

Inf(s) == [k |-> "inf", n |-> s]

Sign(i) == IF i > 0 THEN 1 ELSE IF i < 0 THEN -1 ELSE 0

\* a + b
Add(a, b) ==
    IF a.k = "nan" \/ b.k = "nan" THEN NaN
    ELSE IF a.k = "inf" /\ b.k = "inf" THEN (IF a.n = b.n THEN a ELSE NaN)
    ELSE IF a.k = "inf" THEN a
    ELSE IF b.k = "inf" THEN b
    ELSE Num(a.n + b.n)

\* -a
Neg(a) == IF a.k = "nan" THEN NaN ELSE [k |-> a.k, n |-> 0 - a.n]

\* Math.round of the rational p / q, q # 0: the nearest integer, a tie going up
RoundDiv(p, q) ==
    IF q > 0 THEN (2 * p + q) \div (2 * q)
    ELSE ((0 - 2 * p) + (0 - q)) \div (0 - 2 * q)

\* a factor that was guarded to 0 for a zero total
TimesZero(v) == Num(0)

\* v * Infinity, v not NaN
TimesInfinity(v) ==
    IF v.k = "inf" THEN v
    ELSE IF v.n = 0 THEN NaN ELSE Inf(Sign(v.n))

\* the scaling with a factor of 1 whenever the total is 0 or not finite
ScaleRoundGuarded(v, total) ==
    IF total.k # "fin" \/ total.n = 0 THEN v
    ELSE IF v.k # "fin" THEN v
    ELSE Num(RoundDiv(100 * v.n, total.n))

(* Math.round(v * factor) where factor = 100 / total.  total = 0 makes      *)
(* factor +Infinity (total is a sum started at +0, never -0); an infinite   *)
(* total makes factor a zero; a NaN total makes factor NaN.  For a finite   *)
(* non-zero total the double product v * (100 / total) rounds as the exact  *)
(* quotient 100 v / total does: the two can differ only when the quotient   *)
(* is an exact half and the double lands beside it, which in IEEE-754       *)
(* double arithmetic first happens at |v| = 11 (v = -11, total = 88) for a  *)
(* negative product and beyond v = 115, total = 330 for a positive one;     *)
(* the values of this model stay inside -MaxDrift .. SliderMax + MaxDrift.  *)
ScaleRound(v, total) ==
    IF v.k = "nan" \/ total.k = "nan" THEN NaN
    ELSE IF total.k = "inf" THEN (IF v.k = "inf" THEN NaN ELSE Num(0))
    ELSE IF total.n = 0 THEN TimesInfinity(v)
    ELSE IF v.k = "inf" THEN Inf(v.n * Sign(total.n))
    ELSE Num(RoundDiv(100 * v.n, total.n))

----------------------------------------------------------------------------
(* PrioritySliders                                                          *)

Keys == {"textual", "graphical", "symbolical"}

SliderMin == 0

SliderMax == 100

SliderValues == SliderMin .. SliderMax

\* how far outside SliderMin .. SliderMax the model follows a stored value
MaxDrift == 2

DefaultPriorities ==
    [textual |-> Num(33), graphical |-> Num(33), symbolical |-> Num(34)]

\* Object.values(p).reduce((sum, val) => sum + val, 0)
Total(p) == Add(Add(Add(Num(0), p.textual), p.graphical), p.symbolical)

\* the replacement made on the split of the first render (a stale closure)
ReplacedStale(p, type, value) == [DefaultPriorities EXCEPT ![type] = Num(value)]

\* { ...priorities, [type]: value }
Replaced(p, type, value) == [p EXCEPT ![type] = Num(value)]

Normalized(p, type, value) ==
    LET newPriorities == Replaced(p, type, value)
        total == Total(newPriorities)
    IN  IF total = Num(100) THEN newPriorities
        ELSE LET scaled == [key \in Keys |-> ScaleRound(newPriorities[key], total)]
                 finalTotal == Total(scaled)
             IN  IF finalTotal = Num(100) THEN scaled
                 ELSE [scaled EXCEPT
                          ![type] = Add(scaled[type], Add(Num(100), Neg(finalTotal)))]

InRange(p) ==
    \A key \in Keys :
        p[key].k = "fin" =>
            /\ p[key].n >= SliderMin - MaxDrift
            /\ p[key].n <= SliderMax + MaxDrift

\* what the history keeps of a call: whether the total of the three values
\* after the replacement was 0, and else whether the value was the key's own
EditKind(p, type, value) ==
    IF Total(Replaced(p, type, value)) = Num(0) THEN "editZero"
    ELSE IF p[type] = Num(value) THEN "editSame" ELSE "editChanged"

HandleSliderChange(type, value) ==
    /\ sliderPriorities' = Normalized(sliderPriorities, type, value)
    /\ InRange(sliderPriorities')
    /\ priorities' = sliderPriorities'
    /\ lastEvent' = EditKind(sliderPriorities, type, value)
    /\ UNCHANGED <<appVars, text, processed>>

SliderEdit == \E type \in Keys, value \in SliderValues : HandleSliderChange(type, value)

----------------------------------------------------------------------------
(* External collaborators (the hosted assistant and the completion API).    *)
(* Each awaited call either resolves or rejects; what it resolves to is an  *)
(* input of the step that resumes the handler.                              *)

\* a rejection: an Error instance (its message is shown) or any other value
Rejections == {"Error", "NonError"}

ExternalMessage == "Request failed"

\* catch (err): err instanceof Error ? err.message : "An error occurred"
CaughtMessage(rejection) ==
    IF rejection = "Error" THEN ExternalMessage ELSE "An error occurred"

\* run statuses; "expired" stands for every status the loop does not name
Statuses == {"queued", "in_progress", "completed", "failed", "expired"}

\* how many retrievals inside the loop may still report a pending status
MaxPolls == 2

(* messages.list: the thread's messages, newest first.  A message has a     *)
(* role and a content: missing, or a list of items, each a text item with   *)
(* a value, a text item without one, or an item of another type.            *)
Text(tokens) == [type |-> "text", hasValue |-> TRUE, value |-> tokens]

TextNoValue == [type |-> "text", hasValue |-> FALSE, value |-> <<>>]

ImageItem == [type |-> "image_file", hasValue |-> FALSE, value |-> <<>>]

Message(role, content) == [role |-> role, hasContent |-> TRUE, content |-> content]

NoContent(role) == [role |-> role, hasContent |-> FALSE, content |-> <<>>]

ItemLists ==
    { <<>>, <<Text(<<"w">>)>>, <<ImageItem, TextNoValue>>,
      <<Text(<<"w">>), ImageItem, Text(<<"w">>)>> }

MessageLists ==
    { <<>>, <<Message("user", <<>>)>>, <<NoContent("assistant")>> }
    \cup { <<Message("assistant", items)>> : items \in ItemLists }
    \cup { <<Message("user", <<>>), Message("assistant", items),
             Message("assistant", <<>>)>> : items \in ItemLists }

\* messages.data.find((msg) => msg.role === "assistant"): {} when undefined
FindAssistant(data) ==
    LET hits == { i \in 1 .. Len(data) : data[i].role = "assistant" }
    IN  IF hits = {} THEN {}
        ELSE { data[CHOOSE i \in hits : \A j \in hits : i <= j] }

\* item.type === 'text' ? item.text?.value || "" : ""
ItemText(item) ==
    IF item.type = "text" /\ item.hasValue THEN item.value ELSE <<>>

\* content.map(...).join("\n\n"), a text being a sequence of tokens
RECURSIVE JoinItems(_)
JoinItems(items) ==
    IF items = <<>> THEN <<>>
    ELSE IF Len(items) = 1 THEN ItemText(items[1])
    ELSE ItemText(items[1]) \o <<"\n", "\n">> \o JoinItems(Tail(items))

----------------------------------------------------------------------------
(* generateVisualAbstract: the completion content and its validation        *)

Fields == {"header", "methods", "visualizations", "keyFindings", "conclusion"}

\* a top-level field of the parsed object is "absent", "falsy" (present
\* with null, "", 0 or false) or "truthy"
AllTruthy == [f \in Fields |-> "truthy"]

\* the parsed objects the model offers: complete, one field absent, one
\* field falsy, or empty
Objects ==
    {AllTruthy, [f \in Fields |-> "absent"]}
    \cup { [AllTruthy EXCEPT ![f] = "absent"] : f \in Fields }
    \cup { [AllTruthy EXCEPT ![f] = "falsy"] : f \in {"header", "keyFindings"} }

(* The content of a completion is a sequence of pieces: prose, an opening   *)
(* brace, a closing brace, or the member list of a JSON object.  The empty  *)
(* sequence is the content that is null or the empty string.                *)
Open == [t |-> "{"]

Close == [t |-> "}"]

Prose == [t |-> "prose"]

Members(o) == [t |-> "members", o |-> o]

Before == { <<>>, <<Prose>> }

After == { <<>>, <<Prose>>, <<Close>> }

Middles ==
    { <<>>, <<Open>>, <<Close, Open>>, <<Open, Close>>, <<Open, Prose, Close>> }
    \cup { <<Open, Members(o), Close>> : o \in Objects }

Contents == { b \o m \o a : b \in Before, m \in Middles, a \in After }

\* a pattern that asks for the opening brace only: /\{[\s\S]*/
JsonMatchOpenOnly(content) ==
    LET opens == { i \in 1 .. Len(content) : content[i] = Open }
        first == CHOOSE i \in opens : \A j \in opens : i <= j
    IN  IF opens = {} THEN <<>> ELSE SubSeq(content, first, Len(content))

\* content.match(/\{[\s\S]*\}/): from the first "{" to the last "}" after it;
\* <<>> when there is no match
JsonMatch(content) ==
    LET opens == { i \in 1 .. Len(content) : content[i] = Open }
        first == CHOOSE i \in opens : \A j \in opens : i <= j
        closes == { i \in 1 .. Len(content) : content[i] = Close /\ i > first }
        last == CHOOSE i \in closes : \A j \in closes : j <= i
    IN  IF opens = {} THEN <<>>
        ELSE IF closes = {} THEN <<>>
        ELSE SubSeq(content, first, last)

\* JSON.parse(jsonMatch[0]): {} when it throws a SyntaxError
JsonParse(matched) ==
    IF Len(matched) = 2 THEN { [f \in Fields |-> "absent"] }
    ELSE IF Len(matched) = 3 /\ matched[2].t = "members" THEN { matched[2].o }
    ELSE {}

SyntaxErrorMessage == "Unexpected token in JSON"

\* !parsedContent.header || !parsedContent.methods || !parsedContent.conclusion
InvalidStructure(parsed) ==
    \/ parsed["header"] # "truthy"
    \/ parsed["methods"] # "truthy"
    \/ parsed["conclusion"] # "truthy"

(* What generateVisualAbstract does with the completion: the value it       *)
(* returns, or the message of the Error it throws.                          *)
VisualAbstractResult(content) ==
    IF content = <<>> THEN [ok |-> FALSE, message |-> "No response received", data |-> {}]
    ELSE IF JsonMatch(content) = <<>>
    THEN [ok |-> FALSE, message |-> "No JSON object found in response", data |-> {}]
    ELSE IF JsonParse(JsonMatch(content)) = {}
    THEN [ok |-> FALSE, message |-> SyntaxErrorMessage, data |-> {}]
    ELSE IF \E parsed \in JsonParse(JsonMatch(content)) : InvalidStructure(parsed)
    THEN [ok |-> FALSE, message |-> "Invalid response structure", data |-> {}]
    ELSE [ok |-> TRUE, message |-> "null", data |-> JsonParse(JsonMatch(content))]

\* the kind of a completion content, told from the content alone
ContentKind(content) ==
    IF content = <<>> THEN "empty"
    ELSE IF \E i, j \in 1 .. Len(content) :
                i < j /\ content[i] = Open /\ content[j] = Close
    THEN "braced"
    ELSE "unbraced"

----------------------------------------------------------------------------
(* App                                                                      *)

\* event.target.files?.[0]: no file, a file of type application/pdf, or a
\* file of another type
Selections == {"none", "pdf", "other"}

HandleFileChange(selectedFile) ==
    /\ IF selectedFile = "pdf"
       THEN file' = "pdf" /\ error' = "null" /\ lastEvent' = "fileAccepted"
       ELSE error' = "Please upload a PDF file" /\ file' = "null"
            /\ lastEvent' = "fileRejected"
    /\ UNCHANGED <<text, processed, sliderPriorities, priorities, loading,
                   summary, abstractData, pc, runStatus, polls, submitted,
                   sent, calls, abstractBefore, lastContent>>

FileChange == \E selectedFile \in Selections : HandleFileChange(selectedFile)

\* the button disabled on !file alone
SubmitDisabledNoLoading == file = "null"

\* <button type="submit" disabled={!file || loading}>
SubmitDisabled == file = "null" \/ loading

\* the handler without its guard on file
HandlePDFSubmitUnguarded ==
    /\ loading' = TRUE
    /\ summary' = <<>>
    /\ error' = "null"
    /\ pc' = "files.create"
    /\ calls' = {"files.create"}
    /\ runStatus' = "none"
    /\ polls' = 0
    /\ submitted' = {priorities}
    /\ sent' = {}
    /\ abstractBefore' = abstractData
    /\ lastContent' = "none"
    /\ lastEvent' = "submitStarted"
    /\ UNCHANGED <<text, processed, sliderPriorities, priorities, file,
                   abstractData>>

(* handlePDFSubmit up to its first await: the guard, the three setters and  *)
(* the upload request.  The closure keeps the priorities of this render.    *)
HandlePDFSubmit ==
    IF file = "null"
    THEN /\ lastEvent' = "submitIgnored"
         /\ UNCHANGED <<text, processed, sliderPriorities, priorities,
                        appVars>>
    ELSE /\ loading' = TRUE
         /\ summary' = <<>>
         /\ error' = "null"
         /\ pc' = "files.create"
         /\ calls' = {"files.create"}
         /\ runStatus' = "none"
         /\ polls' = 0
         /\ submitted' = {priorities}
         /\ sent' = {}
         /\ abstractBefore' = abstractData
         /\ lastContent' = "none"
         /\ lastEvent' = "submitStarted"
         /\ UNCHANGED <<text, processed, sliderPriorities, priorities, file,
                        abstractData>>

\* a click on the submit button
ClickSubmit == ~SubmitDisabled /\ HandlePDFSubmit

\* a submit event that reaches the form while no file is held (the button is
\* disabled then): it meets the handler's own guard
SubmitWithoutFile == file = "null" /\ HandlePDFSubmit

\* the catch block without the finally block
FailNoFinally(message) ==
    /\ error' = message
    /\ loading' = loading
    /\ pc' = "idle"
    /\ lastEvent' = "submitFailed"

\* catch (err) { setError(...) } finally { setLoading(false) }
Fail(message) ==
    /\ error' = message
    /\ loading' = FALSE
    /\ pc' = "idle"
    /\ lastEvent' = "submitFailed"

\* the handler has returned: its locals and its closure are gone
Returned ==
    /\ runStatus' = "none"
    /\ polls' = 0
    /\ submitted' = {}
    /\ calls' = {}

\* an awaited call rejects
Rejected ==
    /\ pc \notin {"idle", "setTimeout"}
    /\ \E rejection \in Rejections : Fail(CaughtMessage(rejection))
    /\ Returned
    /\ UNCHANGED <<text, processed, sliderPriorities, priorities, file,
                   summary, abstractData, sent, abstractBefore, lastContent>>

\* the next request of the chain files.create, threads.create,
\* messages.create, runs.create, runs.retrieve
NextCall(call) ==
    CASE call = "files.create" -> "threads.create"
      [] call = "threads.create" -> "messages.create"
      [] call = "messages.create" -> "runs.create"
      [] call = "runs.create" -> "runs.retrieve"

Resolved ==
    /\ pc \in {"files.create", "threads.create", "messages.create", "runs.create"}
    /\ pc' = NextCall(pc)
    /\ calls' = calls \cup {NextCall(pc)}
    /\ lastEvent' = "resumed"
    /\ UNCHANGED <<text, processed, sliderPriorities, priorities, file,
                   loading, error, summary, abstractData, runStatus, polls,
                   submitted, sent, abstractBefore, lastContent>>

Pending(status) == status = "queued" \/ status = "in_progress"

\* after a retrieval: the loop condition, then the sleep or messages.list
AfterRetrieve(status) ==
    IF Pending(status)
    THEN pc' = "setTimeout" /\ calls' = calls
    ELSE pc' = "messages.list" /\ calls' = calls \cup {"messages.list"}

\* let runStatus = await runs.retrieve(...): the retrieval before the loop
FirstRetrieved(status) ==
    /\ pc = "runs.retrieve"
    /\ polls = 0
    /\ Pending(status) => polls < MaxPolls
    /\ runStatus' = status
    /\ AfterRetrieve(status)
    /\ lastEvent' = "resumed"
    /\ UNCHANGED <<text, processed, sliderPriorities, priorities, file,
                   loading, error, summary, abstractData, polls, submitted,
                   sent, abstractBefore, lastContent>>

\* await new Promise((resolve) => setTimeout(resolve, 2000)), then the
\* retrieval inside the loop is requested
Slept ==
    /\ pc = "setTimeout"
    /\ pc' = "runs.retrieve"
    /\ polls' = polls + 1
    /\ lastEvent' = "resumed"
    /\ UNCHANGED <<text, processed, sliderPriorities, priorities, file,
                   loading, error, summary, abstractData, runStatus,
                   submitted, sent, calls, abstractBefore, lastContent>>

\* runStatus = await runs.retrieve(...) inside the loop, and the check for
\* "failed" that follows it
LoopRetrieved(status) ==
    /\ pc = "runs.retrieve"
    /\ polls > 0
    /\ Pending(status) => polls < MaxPolls
    /\ IF status = "failed"
       THEN /\ Fail("Assistant failed to process the document")
            /\ Returned
       ELSE /\ runStatus' = status
            /\ AfterRetrieve(status)
            /\ lastEvent' = "resumed"
            /\ UNCHANGED <<loading, error, polls, submitted>>
    /\ UNCHANGED <<text, processed, sliderPriorities, priorities, file,
                   summary, abstractData, sent, abstractBefore, lastContent>>

Retrieved ==
    \E status \in Statuses : FirstRetrieved(status) \/ LoopRetrieved(status)

\* the same step reading App's current priorities in place of the closure's
ListedLatest(data) ==
    /\ pc = "messages.list"
    /\ IF \A m \in FindAssistant(data) : ~m.hasContent
       THEN /\ Fail("No response from Assistant.")
            /\ Returned
            /\ UNCHANGED <<summary, sent>>
       ELSE /\ \E m \in FindAssistant(data) : summary' = JoinItems(m.content)
            /\ sent' = {priorities}
            /\ pc' = "chat.completions.create"
            /\ calls' = calls \cup {"chat.completions.create"}
            /\ lastEvent' = "resumed"
            /\ UNCHANGED <<loading, error, runStatus, polls, submitted>>
    /\ UNCHANGED <<text, processed, sliderPriorities, priorities, file,
                   abstractData, abstractBefore, lastContent>>

(* messages.list resolves: the first assistant message is looked up, its    *)
(* text items are joined into the summary, and generateVisualAbstract is    *)
(* called with the priorities of the closure; it requests the completion.   *)
Listed(data) ==
    /\ pc = "messages.list"
    /\ IF \A m \in FindAssistant(data) : ~m.hasContent
       THEN /\ Fail("No response from Assistant.")
            /\ Returned
            /\ UNCHANGED <<summary, sent>>
       ELSE /\ \E m \in FindAssistant(data) : summary' = JoinItems(m.content)
            /\ sent' = submitted
            /\ pc' = "chat.completions.create"
            /\ calls' = calls \cup {"chat.completions.create"}
            /\ lastEvent' = "resumed"
            /\ UNCHANGED <<loading, error, runStatus, polls, submitted>>
    /\ UNCHANGED <<text, processed, sliderPriorities, priorities, file,
                   abstractData, abstractBefore, lastContent>>

MessagesListed == \E data \in MessageLists : Listed(data)

(* The completion resolves: generateVisualAbstract returns or throws, and   *)
(* handlePDFSubmit stores the data or the error and clears loading.         *)
Completed(content) ==
    /\ pc = "chat.completions.create"
    /\ lastContent' = ContentKind(content)
    /\ IF VisualAbstractResult(content).ok
       THEN /\ abstractData' = VisualAbstractResult(content).data
            /\ loading' = FALSE
            /\ pc' = "idle"
            /\ lastEvent' = "submitSucceeded"
            /\ UNCHANGED error
       ELSE /\ Fail(VisualAbstractResult(content).message)
            /\ UNCHANGED abstractData
    /\ Returned
    /\ UNCHANGED <<text, processed, sliderPriorities, priorities, file,
                   summary, sent, abstractBefore>>

CompletionReceived == \E content \in Contents : Completed(content)

\* the sliders as the App specification drives them: a slider pulled to its
\* minimum (all values are followed by SliderSpec)
AppSliderValues == {SliderMin}

AppSliderEdit ==
    \E type \in Keys, value \in AppSliderValues : HandleSliderChange(type, value)
----------------------------------------------------------------------------
(* researchProcessor: processInitialData and extractMetrics.  A text is a   *)
(* sequence of tokens, each standing for the characters it spells; the      *)
(* patterns of the code are matched token by token, a character class       *)
(* being the set of tokens it accepts.                                      *)

Alphabet ==
    { "Title", "design", "Methods", "Results", ":", " ", "\n", ".", "#",
      "45", "%", "mg", "U/L", "x", "randomizing" }

\* the longest text the model processes
MaxText == 3

Texts == UNION { [1 .. n -> Alphabet] : n \in 0 .. MaxText }

\* token.length
TokenLen(t) ==
    CASE t \in {":", " ", "\n", ".", "#", "%", "x"} -> 1
      [] t \in {"45", "mg"} -> 2
      [] t = "U/L" -> 3
      [] t = "Title" -> 5
      [] t = "design" -> 6
      [] t \in {"Methods", "Results"} -> 7
      [] t = "randomizing" -> 11
      [] OTHER -> 12

RECURSIVE CharLen(_)
CharLen(s) == IF s = <<>> THEN 0 ELSE TokenLen(Head(s)) + CharLen(Tail(s))

Spaces == {" ", "\n"}                           \* \s

NonNewline == Alphabet \ {"\n"}                 \* [^\n]

TypeChars == Alphabet \ {"\n", ".", ","}        \* [^\n.,]

NonHash == Alphabet \ {"#"}                     \* [^#]

DigitTokens == {"45"}                           \* \d+

TitleWords == {"Title", "Name"}                 \* (?:Title|Name)

TypeWords == {"study type", "design"}           \* (?:study type|design)

MethodsWords == {"Method", "Methods", "Protocol"}         \* (?:Methods?|Protocol)

FindingsWords == {"Result", "Results", "Finding", "Findings"}  \* (?:Results?|Findings?)

At(s, i, class) == i >= 1 /\ i <= Len(s) /\ s[i] \in class

\* the length of the longest run of tokens of a class that starts at i
Run(s, i, class) ==
    CHOOSE n \in 0 .. Len(s) :
        /\ \A k \in i .. i + n - 1 : At(s, k, class)
        /\ ~At(s, i + n, class)

Max(S) == CHOOSE x \in S : \A y \in S : y <= x

Min(S) == CHOOSE x \in S : \A y \in S : x <= y

\* String.prototype.trim
RECURSIVE TrimStart(_)
TrimStart(s) == IF s # <<>> /\ Head(s) \in Spaces THEN TrimStart(Tail(s)) ELSE s

RECURSIVE TrimEnd(_)
TrimEnd(s) ==
    IF s # <<>> /\ s[Len(s)] \in Spaces THEN TrimEnd(SubSeq(s, 1, Len(s) - 1)) ELSE s

Trim(s) == TrimEnd(TrimStart(s))

\* String.prototype.split on a class of one-character separators
RECURSIVE Split(_, _)
Split(s, seps) ==
    LET cuts == { i \in 1 .. Len(s) : s[i] \in seps }
    IN  IF cuts = {} THEN <<s>>
        ELSE <<SubSeq(s, 1, Min(cuts) - 1)>>
             \o Split(SubSeq(s, Min(cuts) + 1, Len(s)), seps)

(* \s*(class+) at j: the whitespace is taken greedily and given back one    *)
(* token at a time until a token of the class follows; the group is the     *)
(* run of the class from there.  {} when nothing matches.                   *)
SpacesThenRun(s, j, class) ==
    LET gives == { c \in 0 .. Run(s, j, Spaces) : At(s, j + c, class) }
        from == j + Max(gives)
    IN  IF gives = {} THEN {}
        ELSE { SubSeq(s, from, from + Run(s, from, class) - 1) }

(* \s*([^#]+?)(?=\n|$) at j: after the whitespace the group is the shortest *)
(* non-empty stretch without "#" that ends before a newline or at the end.  *)
LazyEnds(s, from) ==
    { e \in from .. Len(s) :
        /\ \A k \in from .. e : At(s, k, NonHash)
        /\ (e = Len(s) \/ s[e + 1] = "\n") }

SpacesThenSection(s, j) ==
    LET gives == { c \in 0 .. Run(s, j, Spaces) : LazyEnds(s, j + c) # {} }
        from == j + Max(gives)
    IN  IF gives = {} THEN {}
        ELSE { SubSeq(s, from, Min(LazyEnds(s, from))) }

\* /(?:Title|Name)?:?\s*([^\n]+)/i tried at i: the optional label and the
\* optional colon are taken when they can be, and given up when the rest fails
TitleAt(s, i) ==
    LET label == IF At(s, i, TitleWords) THEN 1 ELSE 0
        tries == << IF label = 1 /\ At(s, i + 1, {":"})
                    THEN SpacesThenRun(s, i + 2, NonNewline) ELSE {},
                    IF label = 1 THEN SpacesThenRun(s, i + 1, NonNewline) ELSE {},
                    IF At(s, i, {":"}) THEN SpacesThenRun(s, i + 1, NonNewline) ELSE {},
                    SpacesThenRun(s, i, NonNewline) >>
        hits == { n \in 1 .. 4 : tries[n] # {} }
    IN  IF hits = {} THEN {} ELSE tries[Min(hits)]

\* text.match(...)?.[1] of the title pattern: the group of the leftmost match
TitleMatch(s) ==
    LET starts == { i \in 1 .. Len(s) : TitleAt(s, i) # {} }
    IN  IF starts = {} THEN {} ELSE TitleAt(s, Min(starts))

\* /(?:study type|design):?\s*([^\n.,]+)/i tried at i
TypeAt(s, i) ==
    IF ~At(s, i, TypeWords) THEN {}
    ELSE IF At(s, i + 1, {":"}) /\ SpacesThenRun(s, i + 2, TypeChars) # {}
    THEN SpacesThenRun(s, i + 2, TypeChars)
    ELSE SpacesThenRun(s, i + 1, TypeChars)

TypeMatch(s) ==
    LET starts == { i \in 1 .. Len(s) : TypeAt(s, i) # {} }
    IN  IF starts = {} THEN {} ELSE TypeAt(s, Min(starts))

\* /(?:Methods?|Protocol):?\s*([^#]+?)(?=\n|$)/i, and the same for the
\* findings labels, tried at i
SectionAt(s, i, words) ==
    IF ~At(s, i, words) THEN {}
    ELSE IF At(s, i + 1, {":"}) /\ SpacesThenSection(s, i + 2) # {}
    THEN SpacesThenSection(s, i + 2)
    ELSE SpacesThenSection(s, i + 1)

SectionMatch(s, words) ==
    LET starts == { i \in 1 .. Len(s) : SectionAt(s, i, words) # {} }
    IN  IF starts = {} THEN {} ELSE SectionAt(s, Min(starts), words)

\* .filter(s => s && s.length > 10) after .map(s => s.trim())
RECURSIVE KeepLong(_)
KeepLong(parts) ==
    IF parts = <<>> THEN <<>>
    ELSE IF CharLen(Trim(Head(parts))) > 10
         THEN <<Trim(Head(parts))>> \o KeepLong(Tail(parts))
         ELSE KeepLong(Tail(parts))

\* match?.[1]?.split(/[.;]/).map(...).filter(...): {} when undefined
Sentences(match) == { KeepLong(Split(group, {".", ";"})) : group \in match }

\* x || fallback with the fallback left out
NoFallback(x, fallback) == IF x = {<<>>} THEN {} ELSE x

\* x || fallback for an optional string: undefined and "" are falsy
OrString(x, fallback) == IF x = {} \/ x = {<<>>} THEN {fallback} ELSE x

\* x || [] for an optional array: only undefined is falsy
OrEmptyList(x) == IF x = {} THEN {<<>>} ELSE x

----------------------------------------------------------------------------
(* extractMetrics                                                           *)

Patterns ==
    << [units |-> {"mg", "g", "ml", "L"}, type |-> "measurement"],
       [units |-> {"%"}, type |-> "percentage"],
       [units |-> {"U/L", "IU/L", "umol/L", "mg/dL"}, type |-> "lab_value"] >>

\* how many characters before a match the label is taken from
ContextWindow == 50

\* (\d+(?:\.\d+)?)\s*unit tried at i: {} or the match, with the positions of
\* the last token of the number and of the unit
NumberEnds(s, i) ==
    LET whole == i + Run(s, i, DigitTokens) - 1
        frac == IF At(s, whole + 1, {"."})
                THEN Run(s, whole + 2, DigitTokens) ELSE 0
    IN  IF ~At(s, i, DigitTokens) THEN <<>>
        ELSE IF frac > 0 THEN <<whole + 1 + frac, whole>> ELSE <<whole>>

MetricAt(s, i, units) ==
    LET ends == NumberEnds(s, i)
        ok == { n \in 1 .. Len(ends) :
                  At(s, ends[n] + 1 + Run(s, ends[n] + 1, Spaces), units) }
        numEnd == ends[Min(ok)]
    IN  IF ok = {} THEN {}
        ELSE { [index |-> i, numEnd |-> numEnd,
                end |-> numEnd + 1 + Run(s, numEnd + 1, Spaces)] }

\* parseFloat(match[1]): the digits before and after the point
RECURSIVE Digits(_)
Digits(tokens) ==
    IF tokens = <<>> THEN 0
    ELSE Digits(SubSeq(tokens, 1, Len(tokens) - 1)) * 100 + 45

ParseFloat(tokens) ==
    LET point == { i \in 1 .. Len(tokens) : tokens[i] = "." }
    IN  IF point = {} THEN [whole |-> Digits(tokens), frac |-> <<>>]
        ELSE [whole |-> Digits(SubSeq(tokens, 1, Min(point) - 1)),
              frac |-> SubSeq(tokens, Min(point) + 1, Len(tokens))]

\* context.charAt(0).toUpperCase() + context.slice(1)
UpperFirst(t) ==
    CASE t = "x" -> "X"
      [] t = "design" -> "Design"
      [] t = "randomizing" -> "Randomizing"
      [] t = "mg" -> "Mg"
      [] t = "measurement" -> "Measurement"
      [] t = "percentage" -> "Percentage"
      [] t = "lab_value" -> "Lab_value"
      [] OTHER -> t

Capitalize(s) == IF s = <<>> THEN <<>> ELSE <<UpperFirst(Head(s))>> \o Tail(s)

\* text.substring(Math.max(0, index - 50), index): the whole tokens of the
\* last 50 characters before the match
RECURSIVE LastChars(_, _)
LastChars(s, n) ==
    IF s = <<>> \/ TokenLen(s[Len(s)]) > n THEN <<>>
    ELSE LastChars(SubSeq(s, 1, Len(s) - 1), n - TokenLen(s[Len(s)])) \o <<s[Len(s)]>>

\* .split(/[.,;:]/).pop()?.trim() || type
Context(s, index, type) ==
    LET parts == Split(LastChars(SubSeq(s, 1, index - 1), ContextWindow),
                       {".", ",", ";", ":"})
        last == Trim(parts[Len(parts)])
    IN  IF last = <<>> THEN <<type>> ELSE last

Metric(s, m, type) ==
    [label |-> Capitalize(Context(s, m.index, type)),
     value |-> ParseFloat(SubSeq(s, m.index, m.numEnd)),
     unit |-> Trim(SubSeq(s, m.numEnd + 1, m.end))]

\* while ((match = regex.exec(text)) !== null): the matches from lastIndex on
RECURSIVE Exec(_, _, _)
Exec(s, lastIndex, pattern) ==
    LET starts == { i \in lastIndex .. Len(s) : MetricAt(s, i, pattern.units) # {} }
        m == CHOOSE x \in MetricAt(s, Min(starts), pattern.units) : TRUE
    IN  IF starts = {} THEN <<>>
        ELSE <<Metric(s, m, pattern.type)>> \o Exec(s, m.end + 1, pattern)

extractMetrics(s) ==
    Exec(s, 1, Patterns[1]) \o Exec(s, 1, Patterns[2]) \o Exec(s, 1, Patterns[3])

processInitialData(s) ==
    [title |-> OrString({ Trim(g) : g \in TitleMatch(s) }, <<"Research Study">>),
     type |-> OrString({ Trim(g) : g \in TypeMatch(s) }, <<"Clinical Study">>),
     metrics |-> {extractMetrics(s)},
     methods |-> OrEmptyList(Sentences(SectionMatch(s, MethodsWords))),
     findings |-> OrEmptyList(Sentences(SectionMatch(s, FindingsWords)))]

\* the call of processInitialData on the text under test
ProcessText ==
    /\ processed = {}
    /\ processed' = {processInitialData(text)}
    /\ UNCHANGED <<text, sliderPriorities, priorities, appVars, lastEvent>>
----------------------------------------------------------------------------
Mounted ==
    /\ sliderPriorities = DefaultPriorities
    /\ priorities = DefaultPriorities
    /\ file = "null"
    /\ loading = FALSE
    /\ error = "null"
    /\ summary = <<>>
    /\ abstractData = {}
    /\ pc = "idle"
    /\ runStatus = "none"
    /\ polls = 0
    /\ submitted = {}
    /\ sent = {}
    /\ calls = {}
    /\ abstractBefore = {}
    /\ lastContent = "none"
    /\ lastEvent = "none"
    /\ processed = {}

Init == Mounted /\ text = <<>>

SliderNext == SliderEdit

SliderSpec == Init /\ [][SliderNext]_vars

Next ==
    \/ AppSliderEdit
    \/ FileChange
    \/ ClickSubmit
    \/ SubmitWithoutFile
    \/ Resolved
    \/ Rejected
    \/ Retrieved
    \/ Slept
    \/ MessagesListed
    \/ CompletionReceived

Spec == Init /\ [][Next]_vars

\* an awaited external call returns or throws
Settled ==
    \/ Resolved
    \/ Rejected
    \/ Retrieved
    \/ MessagesListed
    \/ CompletionReceived

(* The App under the scheduling of the runtime: every awaited external     *)
(* call settles and the 2000 ms timer fires.  That the run reports a       *)
(* status other than "queued" and "in_progress" in the end is the guard on *)
(* polls of the two retrieval steps.                                       *)
LiveSpec == Spec /\ WF_vars(Settled) /\ WF_vars(Slept)

\* processInitialData on every text of the bound
ProcessorInit == Mounted /\ text \in Texts

ProcessorNext == ProcessText

ProcessorSpec == ProcessorInit /\ [][ProcessorNext]_vars
----------------------------------------------------------------------------
(* Properties                                                               *)

\* three non-negative integers summing to 100
ValidSplit(p) ==
    /\ \A key \in Keys : p[key].k = "fin" /\ p[key].n >= 0
    /\ Total(p) = Num(100)

\* {error && <div>...}: a non-empty message is rendered
ErrorShown == error # "null" /\ error # ""

\* {abstractData && !loading && <VisualAbstract .../>}
AbstractShown == abstractData # {} /\ ~loading

\* C1: from the default split, after any sequence of slider edits the three
\* stored values sum to exactly 100.
C1_SumAlways100 == Total(sliderPriorities) = Num(100)

\* C2: an edit of a split of non-negative integers summing to 100, whose
\* total after the replacement is not zero, yields non-negative integers
\* summing to 100.
C2_EditKeepsValidSplit ==
    [][(ValidSplit(sliderPriorities) /\ lastEvent' \in {"editSame", "editChanged"})
          => ValidSplit(sliderPriorities')]_vars

C4_FailureShowsErrorOnly ==
    lastEvent = "submitFailed" => ~loading /\ ErrorShown /\ ~AbstractShown

\* C5: once a retrieval of the submission has reported "failed", the
\* thread's messages are never listed and no completion is requested.
C5_FailedRunFailsFast ==
    runStatus = "failed" =>
        /\ "messages.list" \notin calls
        /\ "chat.completions.create" \notin calls

\* C6: the abstractData a submission stores has all five top-level fields.
C6_AllFieldsPresent ==
    \A data \in abstractData : \A f \in Fields : data[f] # "absent"

\* C7: after a selection that is not a PDF, file is null and error is
\* "Please upload a PDF file"; and handlePDFSubmit called while file is null
\* makes no external call and leaves loading, summary, error and
\* abstractData as they are.
C7_NonPdfBlocksSubmit ==
    /\ [](lastEvent = "fileRejected" =>
             file = "null" /\ error = "Please upload a PDF file")
    /\ [][SubmitWithoutFile =>
             UNCHANGED <<loading, summary, error, abstractData, pc, calls>>]_vars

C7_Witness ==
    /\ lastEvent = "submitIgnored"
    /\ file = "null"
    /\ error = "Please upload a PDF file"
    /\ abstractData # {}

\* C8 as stated: a completion content without brace-enclosed text (the empty
\* content included) ends the submission with "No JSON object found in
\* response", loading false and abstractData as before the submission.
C8_NoBracesNoJsonFound ==
    (lastEvent = "submitFailed" /\ lastContent \in {"empty", "unbraced"}) =>
        /\ error = "No JSON object found in response"
        /\ ~loading
        /\ abstractData = abstractBefore

\* C8 as amended: a non-empty content without brace-enclosed text ends the
\* submission with "No JSON object found in response", an empty content with
\* "No response received"; both with loading false and abstractData as
\* before the submission.
C8_NonEmptyNoBracesNoJsonFound ==
    /\ (lastEvent = "submitFailed" /\ lastContent = "unbraced") =>
          /\ error = "No JSON object found in response"
          /\ ~loading
          /\ abstractData = abstractBefore
    /\ (lastEvent = "submitFailed" /\ lastContent = "empty") =>
          /\ error = "No response received"
          /\ ~loading
          /\ abstractData = abstractBefore

C8_Witness ==
    /\ lastEvent = "submitFailed"
    /\ lastContent = "unbraced"
    /\ error = "No JSON object found in response"
    /\ abstractData # {}

\* C9: an edit of a split summing to 100 that sets a key to the value it
\* has leaves the split as it is.
C9_SameValueSameSplit ==
    [][(Total(sliderPriorities) = Num(100) /\ lastEvent' = "editSame")
          => sliderPriorities' = sliderPriorities]_vars

C9_Witness ==
    /\ lastEvent = "editSame"
    /\ sliderPriorities # DefaultPriorities
    /\ Total(sliderPriorities) = Num(100)

\* no numeric pattern of extractMetrics matches anywhere in the text
NoMetricMatch(s) ==
    \A n \in 1 .. Len(Patterns), i \in 1 .. Len(s) :
        MetricAt(s, i, Patterns[n].units) = {}

\* C10: processInitialData returns, for every text, a record whose title,
\* type, methods, findings and metrics are all defined (an undefined field
\* is the empty set here); without a title or
\* type match the title is "Research Study" and the type "Clinical Study",
\* and without a methods section, a findings section or a numeric match the
\* list concerned is empty.
C10_AlwaysWellFormed ==
    /\ \A data \in processed :
          /\ data.title # {} /\ data.type # {} /\ data.metrics # {}
          /\ data.methods # {} /\ data.findings # {}
          /\ TitleMatch(text) = {} => data.title = {<<"Research Study">>}
          /\ TypeMatch(text) = {} => data.type = {<<"Clinical Study">>}
          /\ SectionMatch(text, MethodsWords) = {} => data.methods = {<<>>}
          /\ SectionMatch(text, FindingsWords) = {} => data.findings = {<<>>}
          /\ NoMetricMatch(text) => data.metrics = {<<>>}

C10_Witness ==
    /\ text = <<"\n", "#", "\n">>
    /\ TitleMatch(text) = {<<"#">>}
    /\ \E data \in processed :
          /\ data.title = {<<"#">>}
          /\ data.type = {<<"Clinical Study">>}
          /\ data.methods = {<<>>} /\ data.findings = {<<>>} /\ data.metrics = {<<>>}

\* C11: the run status is retrieved again exactly while the last retrieved
\* status is "queued" or "in_progress" (a retrieval is followed by the
\* sleep if and only if it reported one of the two, and a retrieval is
\* requested after a sleep only), and when every awaited call settles and
\* the run reports another status in the end, every submission that has
\* started ends with loading false.
C11_PollsWhilePendingAndEnds ==
    /\ [][(pc = "runs.retrieve" /\ pc' # pc) =>
             (pc' = "setTimeout" <=> Pending(runStatus'))]_vars
    /\ [][(pc = "setTimeout" /\ pc' # pc) =>
             (Pending(runStatus) /\ pc' = "runs.retrieve")]_vars
    /\ (loading ~> ~loading)

\* the loop has polled MaxPolls times and left on "completed"
C11_Witness ==
    /\ pc = "messages.list"
    /\ polls = MaxPolls
    /\ runStatus = "completed"
    /\ loading


\* three integers summing to 100
IntegerSplit(p) ==
    /\ \A key \in Keys : p[key].k = "fin"
    /\ Total(p) = Num(100)

\* C12: once a slider edit has made the total of the three values 0, no
\* sequence of further slider edits brings the stored split back to three
\* integers summing to 100.
C12_ZeroTotalIsPermanent ==
    [](lastEvent = "editZero" => [](~IntegerSplit(sliderPriorities)))

\* a further edit, to a value other than 0, after the edit that made the
\* total 0
C12_Witness ==
    /\ lastEvent = "editChanged"
    /\ sliderPriorities = [textual |-> NaN, graphical |-> NaN, symbolical |-> NaN]


\* what the history keeps of a file selection and of a slider edit
FileEvents == {"fileAccepted", "fileRejected"}

EditEvents == {"editZero", "editSame", "editChanged"}

\* C13: App's copy of the split equals the slider component's split in
\* every state; a submission captures the component's split of the moment
\* it starts, keeps it until it returns whatever edits are made meanwhile,
\* and passes exactly that split to generateVisualAbstract.
C13_SendsSplitAtSubmit ==
    /\ [](priorities = sliderPriorities)
    /\ [][lastEvent' = "submitStarted" => submitted' = {sliderPriorities}]_vars
    /\ [][(submitted # {} /\ submitted' # {}) => submitted' = submitted]_vars
    /\ [][sent' # sent => (sent' = {} \/ sent' = submitted)]_vars
    /\ [](pc = "chat.completions.create" => (sent # {} /\ sent = submitted))

\* a slider was edited while the submission was in flight, and the
\* completion was requested with the split of the submit
C13_Witness ==
    /\ pc = "chat.completions.create"
    /\ sent # {}
    /\ sent # {sliderPriorities}
    /\ lastEvent \in EditEvents


\* a submission is in flight: handlePDFSubmit has not returned
InFlight == pc # "idle"

\* C14: at most one submission is in flight: loading is true exactly while
\* a submission is in flight, a submission starts only when file is not
\* null, loading is false and none is in flight, and a file selection or a
\* slider edit starts none and ends none.
C14_OneSubmissionInFlight ==
    /\ [](InFlight <=> loading)
    /\ [][lastEvent' = "submitStarted" =>
             (file # "null" /\ ~loading /\ ~InFlight)]_vars
    /\ [][lastEvent' \in FileEvents \cup EditEvents =>
             UNCHANGED <<pc, loading, calls, submitted>>]_vars

\* the file was replaced by a rejected selection while the submission was
\* polling, and the submission is still the only one
C14_Witness ==
    /\ lastEvent = "fileRejected"
    /\ file = "null"
    /\ loading
    /\ pc = "setTimeout"
    /\ polls = 1

====
